---- MODULE Spec2Model ----
(***************************************************************************)
(* Model of the spatial neighborhood resolver of comps-visualizer:         *)
(*   src/lib/neighborhoodData.ts      getNYCNeighborhoods, findNeighborhood,*)
(*                                    findAdjacentNeighborhoods             *)
(*   src/app/api/neighborhoods/route.ts   GET /api/neighborhoods            *)
(*                                                                         *)
(* Geometry.  The turf predicates are evaluated exactly on a planar        *)
(* integer grid.  Every neighborhood polygon is an axis-aligned rectangle  *)
(* [x1,x2] x [y1,y2]; one grid step is half a unit, so a unit square has   *)
(* side 2 and a gap of half a unit is 1.  Radii are whole grid steps (the   *)
(* default proximity of 1 is one step) and distances are planar.           *)
(* Centroids are kept doubled (x1+x2, y1+y2) to stay in the integers.      *)
(*                                                                         *)
(* Malformed geometry.  A feature carries the set `bad` of the turf calls  *)
(* that throw when they are handed this feature.  Which calls throw for a  *)
(* given malformed GeoJSON is a property of the library, so the dataset    *)
(* draws it nondeterministically.                                          *)
(*                                                                         *)
(* Specifications.                                                         *)
(*   SpecFind      one call of findNeighborhood on an arbitrary dataset    *)
(*   SpecAdjacent  one call of findAdjacentNeighborhoods on an arbitrary   *)
(*                 dataset                                                 *)
(*   SpecSubject   one call of findAdjacentNeighborhoods on a dataset      *)
(*                 whose first neighborhood is irregular in any way        *)
(*   SpecCalls     a sequence of calls of both, the source becoming        *)
(*                 readable or unreadable between them                     *)
(*   SpecNames     one call of either findAdjacentNeighborhoods of the     *)
(*                 repository on a dataset with display names              *)
(*   SpecUI        the page: the "Show Sales Data" button, the renders of  *)
(*                 MapView and SalesLayer and the sales on the map         *)
(*   SpecSales     one request to GET /api/data/sales on an arbitrary      *)
(*                 sales file                                              *)
(*   SpecRanges    one request to GET /api/data/sales with price and units *)
(*                 ranges on a sales file with prices, units and classes   *)
(*   SpecGeocode   one run of scripts/geocode-sales.js                      *)
(*   SpecSearch    AddressSearch: typing, debounce timers, suggestions     *)
(*   SpecModal     SalesSidebar and PropertyRecordModal: view, enrich,     *)
(*                 close; SpecModalFair adds that every request settles    *)
(*   SpecSelect    MapView, in both versions of the repository: addresses  *)
(*                 selected one after the other and their responses        *)
(*   Spec          the GET /api/neighborhoods handler, request after       *)
(*                 request; its steps are the stretches between awaits     *)
(***************************************************************************)
EXTENDS Integers, Sequences, FiniteSets, TLC

VARIABLES
  source,    \* data/manhattan_neighborhoods.geojson: unavailable, or its features
  names,     \* properties.ntaname of the features, by position (SpecNames)
  reads,     \* how many times the source has been read so far
  call,      \* the library call made by a direct caller, with its result
  previous,  \* the library call made before that one, with its result
  pc,        \* GET handler: "idle", "find", "adjacent", "done"
  req,       \* GET handler: the parsed query of the request being served
  found,     \* GET handler: containingNeighborhood
  response,  \* GET handler: the response of the request being served
  showSales, \* Home: the state behind the "Show Sales Data" button
  view,      \* MapView and SalesLayer: component state, pending render
  map,       \* the mapbox map: its sales source, layers and handlers
  salesSource, \* data/manhattan_sales_geocoded.geojson: unavailable, or its features
  salesCall, \* GET /api/data/sales: the request served and its response
  geo,       \* scripts/geocode-sales.js: the run of processRollingSalesData
  search,    \* AddressSearch: input, debounce timers, suggestion requests
  modal,     \* SalesSidebar and PropertyRecordModal: the record shown
  hoods      \* MapView: the selected address, its requests, the boundaries

libVars == <<source, names, reads, call, previous, pc, req, found, response>>
uiVars == <<showSales, view, map>>
salesVars == <<salesSource, salesCall>>
\* The state of the geocoding script and of the other components.
otherVars == <<geo, search, modal, hoods>>

vars == <<source, names, reads, call, previous, pc, req, found, response,
          uiVars, salesVars, otherVars>>

\* ------------------------------------------------------------------ bounds
GridMax == 5
MaxFeatures == 2
MaxRouteFeatures == 1
MaxIrregular == 1
MaxRadius == 1
MaxReads == 1
MaxCalls == 2
MaxSales == 2
\* The sales extracted from the Excel file (scripts/geocode-sales.js).
MaxGeoSales == 6
\* The changes of the address input.
MaxTyped == 3
\* The clicks on "Enrich Record with AI".
MaxEnrich == 3
\* The addresses selected one after the other.
MaxSelections == 3
\* The adjacent neighborhoods of a response.
MaxAdjacentShown == 2

\* --------------------------------------------------------- program constants
DefaultProximityMiles == 1
\* parseInt(searchParams.get('maxPrice') || '999999999', 10) and
\* parseInt(searchParams.get('maxUnits') || '999', 10)
DefaultMaxPrice == 999999999
DefaultMaxUnits == 999

\* ------------------------------------------------------------ value domains
\* An absent property (undefined) and an absent query parameter (null).
None == "<undefined>"
Null == "<null>"

\* JavaScript numbers: the finite ones are grid coordinates.
Fin(n) == [kind |-> "finite", v |-> n]
NaN == [kind |-> "NaN", v |-> 0]
PosInf == [kind |-> "Infinity", v |-> 0]
NegInf == [kind |-> "-Infinity", v |-> 0]

IsFinite(n) == n.kind = "finite"

\* The result `null` of findNeighborhood, among the positions 1..n of the
\* features of the dataset.
NoFeature == 0

\* The source of the dataset: unreadable or unparsable, or a feature
\* collection.
Unavailable == [available |-> FALSE, features |-> <<>>]
Available(fs) == [available |-> TRUE, features |-> fs]

\* The unique neighborhood code of the feature at position i.
CodeAt(i) == <<"MN01", "MN02", "MN03", "MN04", "MN05", "MN06">>[i]

\* The turf calls that can throw on a malformed feature.
Ops == {"pip", "centroid", "firstCoord", "buffer", "intersects", "touches"}

\* The malformations considered: the calls that throw on the feature.
BadKinds ==
  { {}, {"pip"}, {"centroid"}, {"centroid", "firstCoord"}, {"buffer"},
    {"intersects"}, {"touches"}, Ops }

\* findNeighborhood hands a feature to booleanPointInPolygon only;
\* findAdjacentNeighborhoods to every other call.
FindKinds == { {}, {"pip"} }
AdjacentKinds == BadKinds \ { {"pip"} }

\* Well-formed features only.
RegularKinds == { {} }

\* Unit squares of one row of the grid.
Rects ==
  { [x1 |-> x, x2 |-> x + 2, y1 |-> 0, y2 |-> 2] : x \in 0..(GridMax - 2) }

\* properties.ntacode / properties.id of the feature at position i: the code
\* of a feature is unique in the dataset; with codeless, either property or
\* both may be absent.
PropsAt(i, codeless) ==
  { [ntacode |-> CodeAt(i), id |-> None] }
    \cup IF codeless
         THEN { [ntacode |-> None, id |-> CodeAt(i)], [ntacode |-> None, id |-> None] }
         ELSE {}

FeaturesAt(i, codeless, kinds) ==
  { [ntacode |-> p.ntacode, id |-> p.id,
     x1 |-> g.x1, x2 |-> g.x2, y1 |-> g.y1, y2 |-> g.y2, bad |-> b] :
      p \in PropsAt(i, codeless), g \in Rects, b \in kinds }

\* The number of irregularities of a feature: no ntacode, malformed.
Irregularity(f) ==
  (IF f.ntacode = None THEN 1 ELSE 0) + (IF f.bad # {} THEN 1 ELSE 0)

RECURSIVE Irregulars(_, _)
Irregulars(fs, i) ==
  IF i > Len(fs) THEN 0 ELSE Irregularity(fs[i]) + Irregulars(fs, i + 1)

\* Feature collections of exactly k features with at most MaxIrregular
\* irregularities in all.
RECURSIVE CollectionsOfLen(_, _, _)
CollectionsOfLen(k, codeless, kinds) ==
  IF k = 0 THEN { <<>> }
  ELSE LET prev == CollectionsOfLen(k - 1, codeless, kinds)
           feats == FeaturesAt(k, codeless, kinds)
       IN { Append(q[1], q[2]) :
              q \in { p \in prev \X feats :
                        Irregulars(p[1], 1) + Irregularity(p[2]) <= MaxIrregular } }

FeatureCollections(n, codeless, kinds) ==
  UNION { CollectionsOfLen(k, codeless, kinds) : k \in 0..n }

\* ------------------------------------------------------- turf (geometry)
Max2(a, b) == IF a >= b THEN a ELSE b

\* booleanPointInPolygon(point, polygon): the boundary counts as inside; a
\* non-finite coordinate is inside nothing.
booleanPointInPolygon(lng, lat, f) ==
  /\ IsFinite(lng) /\ IsFinite(lat)
  /\ f.x1 <= lng.v /\ lng.v <= f.x2
  /\ f.y1 <= lat.v /\ lat.v <= f.y2

\* Strict interior of a polygon (used by the properties only).
StrictlyInside(lng, lat, f) ==
  /\ IsFinite(lng) /\ IsFinite(lat)
  /\ f.x1 < lng.v /\ lng.v < f.x2
  /\ f.y1 < lat.v /\ lat.v < f.y2

\* Gap between two rectangles along each axis (0 when they overlap there).
GapX(a, b) == Max2(0, Max2(b.x1 - a.x2, a.x1 - b.x2))
GapY(a, b) == Max2(0, Max2(b.y1 - a.y2, a.y1 - b.y2))

\* A buffer that is only the ring at distance r of the subject, without the
\* subject and the band around it.
BufferIntersects_Ring(subject, candidate, r) ==
  GapX(subject, candidate) * GapX(subject, candidate)
    + GapY(subject, candidate) * GapY(subject, candidate) = r * r

\* A buffer without its boundary: the points at less than r of the subject.
BufferIntersects_Open(subject, candidate, r) ==
  GapX(subject, candidate) * GapX(subject, candidate)
    + GapY(subject, candidate) * GapY(subject, candidate) < r * r

\* booleanIntersects(buffer(subject, r), candidate): the buffer is the set of
\* points within r of the subject, so it meets the candidate exactly when
\* the two polygons are at most r apart.
BufferIntersects(subject, candidate, r) ==
  GapX(subject, candidate) * GapX(subject, candidate)
    + GapY(subject, candidate) * GapY(subject, candidate) <= r * r

\* booleanTouches(a, b): the boundaries meet and the interiors do not.
booleanTouches(a, b) ==
  /\ GapX(a, b) = 0 /\ GapY(a, b) = 0
  /\ \/ a.x2 <= b.x1 \/ b.x2 <= a.x1 \/ a.y2 <= b.y1 \/ b.y2 <= a.y1

\* centroid(feature): the mean of the vertices, kept doubled.
centroid(f) == [ok |-> TRUE, x |-> f.x1 + f.x2, y |-> f.y1 + f.y2]

\* point(coordinates[0][0]): the first vertex of the first ring, doubled.
FirstCoord(f) == [ok |-> TRUE, x |-> 2 * f.x1, y |-> 2 * f.y1]

\* distance(p, q) <= r on doubled points.
WithinDistance(p, q, r) ==
  (p.x - q.x) * (p.x - q.x) + (p.y - q.y) * (p.y - q.y) <= (2 * r) * (2 * r)

\* ------------------------------------------------- src/lib/neighborhoodData
\* getNYCNeighborhoods(): every failure to read or parse the source is caught
\* and answered with an empty feature collection.
getNYCNeighborhoods(src) == IF src.available THEN src.features ELSE <<>>

\* A loop that does not return at the first match and so ends with the last
\* feature containing the point.
RECURSIVE ScanFrom_Last(_, _, _, _)
ScanFrom_Last(features, lng, lat, i) ==
  IF i > Len(features) THEN NoFeature
  ELSE LET rest == ScanFrom_Last(features, lng, lat, i + 1)
       IN IF rest # NoFeature THEN rest
          ELSE IF /\ "pip" \notin features[i].bad
                  /\ booleanPointInPolygon(lng, lat, features[i])
               THEN i
               ELSE NoFeature

\* The loop of findNeighborhood from position i on: the first feature for
\* which booleanPointInPolygon returns true; a feature for which it throws is
\* skipped.
RECURSIVE ScanFrom(_, _, _, _)
ScanFrom(features, lng, lat, i) ==
  IF i > Len(features) THEN NoFeature
  ELSE IF /\ "pip" \notin features[i].bad
          /\ booleanPointInPolygon(lng, lat, features[i])
       THEN i
       ELSE ScanFrom(features, lng, lat, i + 1)

\* A findNeighborhood that raises an error when no polygon contains the
\* point.
findNeighborhood_ThrowsOnNone(src, lng, lat) ==
  LET hit == IF lng = NaN \/ lat = NaN THEN NoFeature
             ELSE ScanFrom(getNYCNeighborhoods(src), lng, lat, 1)
  IN [threw |-> hit = NoFeature, loads |-> 1, value |-> hit]

\* findNeighborhood(lng, lat): point([lng, lat]) throws on NaN.
findNeighborhood(src, lng, lat) ==
  IF lng = NaN \/ lat = NaN
  THEN [threw |-> TRUE, loads |-> 1, value |-> NoFeature]
  ELSE [threw |-> FALSE, loads |-> 1,
        value |-> ScanFrom(getNYCNeighborhoods(src), lng, lat, 1)]

\* properties.ntacode || properties.id
CandidateCode(f) == IF f.ntacode # None THEN f.ntacode ELSE f.id

\* properties.ntacode || properties.id || 'Unknown'
SubjectCode(f) == IF CandidateCode(f) # None THEN CandidateCode(f) ELSE "Unknown"

\* safeGetCentroid(feature): centroid, else the first vertex, else null
\* (ok = FALSE).
safeGetCentroid(f) ==
  IF "centroid" \notin f.bad THEN centroid(f)
  ELSE IF "firstCoord" \notin f.bad THEN FirstCoord(f)
  ELSE [ok |-> FALSE, x |-> 0, y |-> 0]

\* buffer(subject, proximityMiles) succeeded.
HasBuffer(subject) == "buffer" \notin subject.bad

\* A filter callback that does not skip the subject neighborhood.
IsNearby_KeepsSubject(subject, candidate, r) ==
  IF HasBuffer(subject) /\ "intersects" \in candidate.bad
       THEN FALSE
  ELSE IF HasBuffer(subject) /\ BufferIntersects(subject, candidate, r)
       THEN TRUE
  ELSE IF /\ safeGetCentroid(candidate).ok
          /\ WithinDistance(safeGetCentroid(subject),
                            safeGetCentroid(candidate), r)
       THEN TRUE
  ELSE IF "touches" \in (subject.bad \cup candidate.bad)
       THEN FALSE
  ELSE booleanTouches(subject, candidate)

\* The filter callback of findAdjacentNeighborhoods for one candidate.
IsNearby(subject, candidate, r) ==
  IF CandidateCode(candidate) = SubjectCode(subject) THEN FALSE
  ELSE IF HasBuffer(subject) /\ "intersects" \in candidate.bad
       THEN FALSE                       \* booleanIntersects threw: outer catch
  ELSE IF HasBuffer(subject) /\ BufferIntersects(subject, candidate, r)
       THEN TRUE
  ELSE IF /\ safeGetCentroid(candidate).ok
          /\ WithinDistance(safeGetCentroid(subject),
                            safeGetCentroid(candidate), r)
       THEN TRUE
  ELSE IF "touches" \in (subject.bad \cup candidate.bad)
       THEN FALSE                       \* booleanTouches threw: inner catch
  ELSE booleanTouches(subject, candidate)

\* allNeighborhoods.filter(...): the positions kept, in dataset order.
RECURSIVE FilterFrom(_, _, _, _)
FilterFrom(features, subject, r, i) ==
  IF i > Len(features) THEN <<>>
  ELSE (IF IsNearby(subject, features[i], r) THEN <<i>> ELSE <<>>)
         \o FilterFrom(features, subject, r, i + 1)

\* findAdjacentNeighborhoods(subject, proximityMiles): subject is null
\* (NoFeature) or the position of the subject feature in the dataset.
findAdjacentNeighborhoods(src, s, r) ==
  IF s = NoFeature THEN [threw |-> FALSE, loads |-> 0, value |-> <<>>]
  ELSE LET features == getNYCNeighborhoods(src)
           subject == features[s]
       IN IF ~safeGetCentroid(subject).ok
          THEN [threw |-> FALSE, loads |-> 1, value |-> <<>>]
          ELSE [threw |-> FALSE, loads |-> 1,
                value |-> FilterFrom(features, subject, r, 1)]

\* ------------------------------------------------- src/unnamed/part_006
\* The findAdjacentNeighborhoods(neighborhood) of part_006, with its list of
\* known adjacencies by display name.  For this function a grid step is one
\* kilometre.
KnownKeys == {"East Village", "Chelsea", "Lower East Side", "Gramercy"}

knownAdjacencies ==
  [key \in KnownKeys |->
     CASE key = "East Village" ->
            {"Lower East Side", "Gramercy", "Greenwich Village", "NoHo",
             "Alphabet City", "Union Square", "Stuyvesant Town", "Bowery"}
       [] key = "Chelsea" ->
            {"Hudson Yards", "Clinton", "Midtown", "Flatiron",
             "Greenwich Village", "Garment District", "Hell's Kitchen"}
       [] key = "Lower East Side" ->
            {"East Village", "Chinatown", "Bowery", "Two Bridges", "NoHo"}
       [] key = "Gramercy" ->
            {"East Village", "Union Square", "Murray Hill", "Kips Bay", "Flatiron"}]

\* text.includes(part): the empty string is part of every text, and no name
\* of the model or of the lists is a proper part of another one.
Includes(text, part) == part = "" \/ text = part

hasKnownAdjacencies(nhoodName) ==
  \E key \in KnownKeys :
    \/ Includes(nhoodName, key)
    \/ key = "East Village" /\ Includes(nhoodName, "Lower East Side")

\* The forEach over the entries of knownAdjacencies for one candidate.
isKnownAdjacent(nhoodName, candName) ==
  \E key \in KnownKeys :
    IF Includes(nhoodName, key)
    THEN \E adjName \in knownAdjacencies[key] : Includes(candName, adjName)
    ELSE /\ Includes(candName, key)
         /\ \E adjName \in knownAdjacencies[key] : Includes(nhoodName, adjName)

\* cand.properties.ntacode === neighborhood.properties.ntacode ||
\* cand.properties.id === neighborhood.properties.id; two absent properties
\* are both undefined and so equal.
SameNeighborhood(cand, neighborhood) ==
  cand.ntacode = neighborhood.ntacode \/ cand.id = neighborhood.id

\* The body of the main loop for one candidate: TRUE when it is pushed.
IsAdjacentKnown(neighborhood, cand, nhoodName, candName) ==
  IF SameNeighborhood(cand, neighborhood) THEN FALSE
  ELSE IF isKnownAdjacent(nhoodName, candName) THEN TRUE
  ELSE IF /\ "touches" \notin (neighborhood.bad \cup cand.bad)
          /\ booleanTouches(neighborhood, cand)
       THEN TRUE
  ELSE IF /\ "intersects" \notin cand.bad
          /\ 100 * ( GapX(neighborhood, cand) * GapX(neighborhood, cand)
                     + GapY(neighborhood, cand) * GapY(neighborhood, cand) )
               <= 3 * 3                  \* buffer of 0.3 km
       THEN TRUE
  ELSE /\ "centroid" \notin (neighborhood.bad \cup cand.bad)
       /\ LET p == centroid(neighborhood)
              q == centroid(cand)
          IN (p.x - q.x) * (p.x - q.x) + (p.y - q.y) * (p.y - q.y)
               < (2 * 2) * (2 * 2)       \* dist < 2 km, on doubled points

\* The if-chain choosing the fallback list by the name of the neighborhood.
fallbackList(nhoodName) ==
  IF Includes(nhoodName, "East Village") THEN knownAdjacencies["East Village"]
  ELSE IF Includes(nhoodName, "Chelsea") THEN knownAdjacencies["Chelsea"]
  ELSE IF Includes(nhoodName, "Lower East Side")
       THEN knownAdjacencies["Lower East Side"]
  ELSE IF Includes(nhoodName, "Gramercy") THEN knownAdjacencies["Gramercy"]
  ELSE {}

\* The positions pushed by the main loop from position i on.
RECURSIVE KnownLoopFrom(_, _, _, _)
KnownLoopFrom(features, nms, s, i) ==
  IF i > Len(features) THEN <<>>
  ELSE (IF IsAdjacentKnown(features[s], features[i], nms[s], nms[i])
        THEN <<i>> ELSE <<>>)
         \o KnownLoopFrom(features, nms, s, i + 1)

\* The positions pushed by the fallback loop from position i on.
RECURSIVE FallbackLoopFrom(_, _, _, _)
FallbackLoopFrom(features, nms, s, i) ==
  IF i > Len(features) THEN <<>>
  ELSE (IF /\ ~SameNeighborhood(features[i], features[s])
           /\ \E name \in fallbackList(nms[s]) : Includes(nms[i], name)
        THEN <<i>> ELSE <<>>)
         \o FallbackLoopFrom(features, nms, s, i + 1)

\* findAdjacentNeighborhoods(neighborhood) of part_006: a buffer that cannot
\* be built ends in the outer catch and the empty result.
findAdjacentNeighborhoodsKnown(src, nms, s) ==
  IF s = NoFeature THEN [threw |-> FALSE, loads |-> 0, value |-> <<>>]
  ELSE LET features == getNYCNeighborhoods(src)
           adj == KnownLoopFrom(features, nms, s, 1)
       IN IF "buffer" \in features[s].bad
          THEN [threw |-> FALSE, loads |-> 1, value |-> <<>>]
          ELSE IF adj = <<>> /\ hasKnownAdjacencies(nms[s])
          THEN [threw |-> FALSE, loads |-> 1,
                value |-> FallbackLoopFrom(features, nms, s, 1)]
          ELSE [threw |-> FALSE, loads |-> 1, value |-> adj]

\* ------------------------------------------- src/app/api/neighborhoods/route
Numerals == <<"0", "1", "2", "3", "4", "5", "6", "7", "8", "9">>

\* parseFloat(text)
parseFloat(text) ==
  IF \E n \in 0..9 : Numerals[n + 1] = text
  THEN Fin(CHOOSE n \in 0..9 : Numerals[n + 1] = text)
  ELSE IF text = "Infinity" THEN PosInf
  ELSE IF text = "-Infinity" THEN NegInf
  ELSE NaN

\* searchParams.get(name) || '0'
OrZero(raw) == IF raw = Null \/ raw = "" THEN "0" ELSE raw

isNaN(n) == n.kind = "NaN"

\* NextResponse.json(body, { status }); `neighborhood` is the feature whose
\* ntaname || name is sent, which is the feature sent as `data`.
Response(status, coordinates, data, adjacent) ==
  [status |-> status, coordinates |-> coordinates, neighborhood |-> data,
   data |-> data, adjacentNeighborhoods |-> adjacent]

NoResponse == Response(0, <<>>, NoFeature, <<>>)
NoRequest == [lng |-> NaN, lat |-> NaN, lngRaw |-> Null, latRaw |-> Null,
              adjacentRaw |-> Null, includeAdjacent |-> FALSE, lookups |-> 0,
              adjacencies |-> 0]
NoCall == [op |-> "none", lng |-> NaN, lat |-> NaN, subject |-> NoFeature,
           radius |-> 0, threw |-> FALSE, found |-> NoFeature, nearby |-> <<>>]

\* ------------------------- src/app/page.tsx, MapView.tsx, SalesLayer.tsx
\* useState(null) of salesData, and a loaded feature collection: the
\* neighborhood it was fetched for and the number of its features.
NoSalesData == [loaded |-> FALSE, neighborhood |-> Null, count |-> 0]
SalesData(n, count) == [loaded |-> TRUE, neighborhood |-> n, count |-> count]

\* No request to /api/data/sales in flight, and one for neighborhood n.
NoFetch == [active |-> FALSE, neighborhood |-> Null]
Fetch(n) == [active |-> TRUE, neighborhood |-> n]

salesSourceId == "sales-source"
SalesLayerIds == {"sales-points", "sales-clusters", "sales-count"}

\* A map without sales source, layers and handlers.
NoSalesOnMap ==
  [sources |-> {}, layers |-> {}, data |-> NoSalesData, handlers |-> FALSE]

\* The page before the map has loaded: showSales is true, SalesLayer is not
\* rendered.
UiIdle ==
  /\ showSales = TRUE
  /\ view = [mapInitialized |-> FALSE, currentNeighborhood |-> Null,
             mounted |-> FALSE, salesData |-> NoSalesData,
             fetching |-> NoFetch, dirty |-> FALSE]
  /\ map = NoSalesOnMap

\* The neighborhoods an address can resolve to.
SelectableNeighborhoods == {"SoHo", "NoHo"}

\* ------- GET /api/data/sales (src/app/api/data/neighborhoods/route.ts:26-220)
\* text.toLowerCase() on the names of the model.
toLowerCase(text) ==
  CASE text = "SoHo" -> "soho"
    [] text = "NoHo" -> "noho"
    [] text = "Harlem" -> "harlem"
    [] OTHER -> text

\* A feature of the sales file: properties.neighborhood may be absent;
\* isMainNeighborhood is absent in the file.
Sale(id, neighborhood, price, units, buildingClass) ==
  [id |-> id, neighborhood |-> neighborhood, price |-> price, units |-> units,
   buildingClass |-> buildingClass, isMainNeighborhood |-> None]

SalesAt(i) ==
  { Sale(i, n, price, 1, "C1") : n \in {None, "SoHo", "NoHo"}, price \in 1..2 }

\* Sales of two neighborhoods, two prices, two numbers of units and two
\* building classes.
RangeSalesAt(i) ==
  { Sale(i, n, price, units, class) :
      n \in {"SoHo", "NoHo"}, price \in 1..2, units \in 1..2,
      class \in {"C1", "D1"} }

RECURSIVE RangeSalesOfLen(_)
RangeSalesOfLen(k) ==
  IF k = 0 THEN { <<>> }
  ELSE { Append(q[1], q[2]) : q \in RangeSalesOfLen(k - 1) \X RangeSalesAt(k) }

RECURSIVE SalesOfLen(_)
SalesOfLen(k) ==
  IF k = 0 THEN { <<>> }
  ELSE { Append(q[1], q[2]) : q \in SalesOfLen(k - 1) \X SalesAt(k) }

SalesSources ==
  { Unavailable } \cup { Available(fs) : fs \in UNION { SalesOfLen(k) : k \in 0..MaxSales } }

\* parseInt(searchParams.get(name) || fallback, 10), for the parameters of
\* the model: absent, one digit, or a text that is no number.
parseInt(raw, fallback) ==
  IF raw = Null \/ raw = "" THEN Fin(fallback)
  ELSE IF \E n \in 0..9 : Numerals[n + 1] = raw
  THEN Fin(CHOOSE n \in 0..9 : Numerals[n + 1] = raw)
  ELSE NaN

\* A range filter that tests the lower bound only.
InRange_MinOnly(x, lo, hi, defaultHi) ==
  LET on == (IsFinite(lo) /\ lo.v > 0) \/ (IsFinite(hi) /\ hi.v < defaultHi)
  IN on => /\ IsFinite(lo)
           /\ x >= lo.v

\* if (min > 0 || max < defaultMax) filter(x >= min && x <= max): whether a
\* feature with the value x stays; a comparison with NaN is false.
InRange(x, lo, hi, defaultHi) ==
  LET on == (IsFinite(lo) /\ lo.v > 0) \/ (IsFinite(hi) /\ hi.v < defaultHi)
  IN on => /\ IsFinite(lo)
           /\ x >= lo.v
           /\ IsFinite(hi)
           /\ x <= hi.v

\* feature.properties.neighborhood?.toLowerCase() || ''
featureNeighborhood(feature) ==
  IF feature.neighborhood = None THEN "" ELSE toLowerCase(feature.neighborhood)

inMainNeighborhood(feature, neighborhood) ==
  Includes(toLowerCase(neighborhood), featureNeighborhood(feature))

inAdjacentNeighborhood(feature, adjacentNeighborhoods) ==
  \E k \in DOMAIN adjacentNeighborhoods :
    \/ Includes(featureNeighborhood(feature), adjacentNeighborhoods[k])
    \/ Includes(adjacentNeighborhoods[k], featureNeighborhood(feature))

\* adjacentParam.split(',').map(n => n.trim().toLowerCase()); the parameter
\* is given by its comma-separated parts.
ParseAdjacent(neighborhood, includeAdjacent, adjacentParam) ==
  IF neighborhood # Null /\ neighborhood # "" /\ includeAdjacent
     /\ adjacentParam # <<>>
  THEN [k \in DOMAIN adjacentParam |-> toLowerCase(adjacentParam[k])]
  ELSE <<>>

\* The callback of the neighborhood filter for one feature: whether it is
\* kept, and the feature with the mark the callback writes on it.
FilterNeighborhood(feature, neighborhood, includeAdjacent, adjacent) ==
  LET main == inMainNeighborhood(feature, neighborhood)
      adj == inAdjacentNeighborhood(feature, adjacent)
  IN IF includeAdjacent /\ Len(adjacent) > 0
     THEN [keep |-> main \/ adj,
           feature |-> IF main THEN [feature EXCEPT !.isMainNeighborhood = "true"]
                       ELSE IF adj THEN [feature EXCEPT !.isMainNeighborhood = "false"]
                       ELSE feature]
     ELSE [keep |-> main,
           feature |-> IF main THEN [feature EXCEPT !.isMainNeighborhood = "true"]
                       ELSE feature]

\* The four filters in turn on the features from position i on.
RECURSIVE FilterSalesFrom(_, _, _)
FilterSalesFrom(features, q, i) ==
  IF i > Len(features) THEN <<>>
  ELSE LET byName == IF q.neighborhood # Null /\ q.neighborhood # ""
                     THEN FilterNeighborhood(features[i], q.neighborhood,
                                             q.includeAdjacent, q.adjacent)
                     ELSE [keep |-> TRUE, feature |-> features[i]]
           f == byName.feature
           keep == /\ byName.keep
                   /\ InRange(f.price, q.minPrice, q.maxPrice, DefaultMaxPrice)
                   /\ InRange(f.units, q.minUnits, q.maxUnits, DefaultMaxUnits)
                   /\ q.buildingClass # Null /\ q.buildingClass # ""
                        => \E rest \in {"", "1"} : f.buildingClass = q.buildingClass \o rest
       IN (IF keep THEN <<f>> ELSE <<>>) \o FilterSalesFrom(features, q, i + 1)

\* convertToSalesObjects({features}): the properties copied to a sales
\* object; a property that is not copied is absent from the object.
convertToSalesObjects(features) ==
  [k \in DOMAIN features |->
     [id |-> features[k].id, neighborhood |-> features[k].neighborhood,
      price |-> features[k].price, units |-> features[k].units,
      buildingClass |-> features[k].buildingClass,
      isMainNeighborhood |-> None]]

NoSalesCall ==
  [op |-> "none", format |-> "json", neighborhood |-> Null,
   includeAdjacent |-> FALSE, adjacent |-> <<>>,
   minPrice |-> Fin(0), maxPrice |-> Fin(DefaultMaxPrice),
   minUnits |-> Fin(0), maxUnits |-> Fin(DefaultMaxUnits),
   buildingClass |-> Null, status |-> 0, items |-> <<>>]

\* -------------------- scripts/geocode-sales.js (processRollingSalesData)
batchSize == 5

\* The run before the geocoding loop: n sales were extracted, none has
\* been sent to the geocoder.  status is per sale "new", "flight" (request
\* sent, no answer yet), "located" or "none" (geocodeAddress returned null);
\* sent counts the geocoding requests made for the sale.
GeoStart(n) ==
  [pc |-> "batch", n |-> n, i |-> 0,
   status |-> [k \in 1..n |-> "new"], sent |-> [k \in 1..n |-> 0],
   geocodedSales |-> <<>>, output |-> <<>>]

\* The script is not run.
NoGeo == [GeoStart(0) EXCEPT !.pc = "off"]

\* ------------------------------ AddressSearch (src/README.md:77-175)
\* useState(''), useState([]), useState(false), useRef(null): nothing
\* typed, no timer, no request.  A timer is [id, value]; debounceTimeout is
\* the id of the timer set last, or 0 for null; the suggestion list is
\* given by the query whose features it shows, or None when it is empty.
SearchStart ==
  [inputValue |-> "", typedValue |-> "", typed |-> 0, timers |-> {},
   debounceTimeout |-> 0, fired |-> 0, requests |-> <<>>, pending |-> {},
   suggestions |-> None, isLoading |-> FALSE]

\* ----- SalesSidebar.tsx:49-50, 340-364 and PropertyRecordModal.tsx:38-87
\* No property, or one of the sales of the list.
NoProperty == 0
Properties == 1..2

\* useState(null), useState(false) of the sidebar and useState(false),
\* useState([]), useState(null) of the modal.  searchResults and
\* extractedData are given by the property they were obtained for, or
\* NoProperty when they are empty; requests holds the property of every
\* enrichment request in flight, by the number of the click that sent it.
ModalStart ==
  [selectedProperty |-> NoProperty, isModalOpen |-> FALSE,
   isEnriching |-> FALSE, searchResults |-> NoProperty,
   extractedData |-> NoProperty, requests |-> {}, started |-> 0]

\* ---- MapView.tsx:46-52, 149-233 and its multi-neighborhood version
\* ---- unnamed/part_011:55-56, 192-356
\* No address, or one of the addresses the user can select; the
\* neighborhood of an address is given by the address.
NoAddress == 0
Addresses == 1..2

MapViewVersions == { "MapView.tsx", "part_011" }

\* The component after the map has loaded, before any selection.
\* neighborhoodData (neighborhoods in part_011) and currentNeighborhood
\* (mainNeighborhood in part_011) are given by the address they were
\* fetched for; length is neighborhoods.length; timers are the pending
\* setTimeout callbacks of MapView.tsx, by the address of their data;
\* boundary is the address whose neighborhood-boundary is on the map;
\* layers are the addresses whose neighborhood-boundary-<index> are on
\* the map, by index + 1; dirty: the effect on neighborhoods has yet to run.
HoodsStart(version) ==
  [version |-> version, selectedAddress |-> NoAddress, selected |-> 0,
   requests |-> {},
   outcome |-> [k \in 1..MaxSelections |-> "none"],
   neighborhoodData |-> NoAddress, currentNeighborhood |-> NoAddress,
   length |-> 0, timers |-> <<>>, boundary |-> NoAddress,
   layers |-> <<>>, dirty |-> FALSE]

OtherIdle ==
  /\ geo = NoGeo
  /\ search = SearchStart
  /\ modal = ModalStart
  /\ hoods = HoodsStart("MapView.tsx")

\* sales.slice(i, Math.min(i + batchSize, sales.length)), as positions.
Batch(g) == (g.i + 1)..(IF g.i + batchSize < g.n THEN g.i + batchSize ELSE g.n)

\* No request for sales has been served.
SalesIdle ==
  /\ salesSource = Unavailable
  /\ salesCall = NoSalesCall

\* ----------------------------------------------------------------- inputs
Sources(n, codeless, kinds) ==
  { Unavailable }
    \cup { Available(fs) : fs \in FeatureCollections(n, codeless, kinds) }

Radii == 0..MaxRadius
\* The points of the middle line of the row of squares, up to one step to
\* the right of the grid, and the points with a non-finite coordinate.
QueryPoints ==
  { <<Fin(n), Fin(1)>> : n \in 0..(GridMax + 1) }
    \cup { <<NaN, Fin(1)>>, <<Fin(1), NaN>>, <<PosInf, Fin(1)>>, <<NegInf, Fin(1)>> }
Subjects(src) == { NoFeature } \cup (1..Len(getNYCNeighborhoods(src)))

LngParams ==
  { Null, "abc", "Infinity", "-Infinity" } \cup { Numerals[n + 1] : n \in 0..GridMax }
LatParams == { Null, "abc", "1" }
AdjacentParams == { Null, "false", "true", "False" }

\* -------------------------------- library calls (SpecFind, SpecAdjacent)
Idle ==
  /\ UiIdle
  /\ SalesIdle
  /\ OtherIdle
  /\ names = <<>>
  /\ reads = 0
  /\ call = NoCall
  /\ previous = NoCall
  /\ pc = "idle"
  /\ req = NoRequest
  /\ found = NoFeature
  /\ response = NoResponse

InitFind ==
  /\ source \in Sources(MaxFeatures, FALSE, FindKinds)
  /\ Idle

InitAdjacent ==
  /\ source \in Sources(MaxFeatures, TRUE, AdjacentKinds)
  /\ Idle

\* A caller awaits findNeighborhood(lng, lat).
CallFindNeighborhood(lng, lat) ==
  /\ previous' = call
  /\ LET res == findNeighborhood(source, lng, lat)
     IN /\ call' = [op |-> "findNeighborhood", lng |-> lng, lat |-> lat,
                    subject |-> NoFeature, radius |-> 0, threw |-> res.threw,
                    found |-> res.value, nearby |-> <<>>]
        /\ reads' = reads + res.loads
  /\ UNCHANGED <<source, names, pc, req, found, response, uiVars, salesVars, otherVars>>

\* A findAdjacentNeighborhoods that filters the collection in place: the
\* features that are not nearby are removed from it.
CallFindAdjacent_InPlace(s, r) ==
  /\ previous' = call
  /\ LET res == findAdjacentNeighborhoods(source, s, r)
     IN /\ call' = [op |-> "findAdjacentNeighborhoods", lng |-> NaN,
                    lat |-> NaN, subject |-> s, radius |-> r,
                    threw |-> res.threw, found |-> NoFeature,
                    nearby |-> res.value]
        /\ reads' = reads + res.loads
        /\ source' = IF s = NoFeature THEN source
                     ELSE [source EXCEPT !.features =
                             [k \in DOMAIN res.value |-> source.features[res.value[k]]]]
  /\ UNCHANGED <<names, pc, req, found, response, uiVars, salesVars, otherVars>>

\* A caller awaits findAdjacentNeighborhoods(subject, proximityMiles).
CallFindAdjacent(s, r) ==
  /\ previous' = call
  /\ LET res == findAdjacentNeighborhoods(source, s, r)
     IN /\ call' = [op |-> "findAdjacentNeighborhoods", lng |-> NaN,
                    lat |-> NaN, subject |-> s, radius |-> r,
                    threw |-> res.threw, found |-> NoFeature,
                    nearby |-> res.value]
        /\ reads' = reads + res.loads
  /\ UNCHANGED <<source, names, pc, req, found, response, uiVars, salesVars, otherVars>>

NextFind ==
  /\ call = NoCall
  /\ \E p \in QueryPoints : CallFindNeighborhood(p[1], p[2])

NextAdjacent ==
  /\ call = NoCall
  /\ \E s \in Subjects(source), r \in Radii : CallFindAdjacent(s, r)

SpecFind == InitFind /\ [][NextFind]_vars

SpecAdjacent == InitAdjacent /\ [][NextAdjacent]_vars

\* ------------------------------ an irregular subject (SpecSubject)
\* Feature collections whose first feature may lack its codes and be
\* malformed in any way, followed by well-formed features with an ntacode.
RECURSIVE RegularTails(_, _)
RegularTails(first, k) ==
  IF k = 0 THEN { <<first>> }
  ELSE { Append(q[1], q[2]) :
           q \in RegularTails(first, k - 1) \X FeaturesAt(k + 1, FALSE, RegularKinds) }

SubjectCollections ==
  UNION { RegularTails(first, k) :
            first \in FeaturesAt(1, TRUE, AdjacentKinds), k \in 0..(MaxFeatures - 1) }

InitSubject ==
  /\ source \in { Available(fs) : fs \in SubjectCollections }
  /\ Idle

SpecSubject == InitSubject /\ [][NextAdjacent]_vars

\* ------------------------------------- sequences of library calls (SpecCalls)
InitCalls ==
  /\ source \in Sources(MaxFeatures, FALSE, RegularKinds)
  /\ Idle

\* Between two calls the source starts or stops being readable: the file is
\* read (the endpoint fetched) anew by every call of getNYCNeighborhoods.
SourceChanges ==
  /\ source' = [source EXCEPT !.available = ~@]
  /\ UNCHANGED <<names, reads, call, previous, pc, req, found, response,
               uiVars, salesVars, otherVars>>

NextCalls ==
  \/ /\ reads < MaxCalls
     /\ \E p \in QueryPoints : CallFindNeighborhood(p[1], p[2])
  \/ /\ reads < MaxCalls
     /\ \E s \in Subjects(source), r \in Radii : CallFindAdjacent(s, r)
  \/ SourceChanges

SpecCalls == InitCalls /\ [][NextCalls]_vars

\* ----------------------------- adjacency and display names (SpecNames)
\* The display names given to neighborhoods: two of a known adjacency and
\* one that is in no list.
Names == {"East Village", "NoHo", "Harlem"}

Namings(n) == [1..n -> Names]

InitNames ==
  /\ source \in Sources(MaxFeatures, TRUE, RegularKinds)
  /\ names \in Namings(Len(getNYCNeighborhoods(source)))
  /\ UiIdle
  /\ SalesIdle
  /\ OtherIdle
  /\ reads = 0
  /\ call = NoCall
  /\ previous = NoCall
  /\ pc = "idle"
  /\ req = NoRequest
  /\ found = NoFeature
  /\ response = NoResponse

\* A caller awaits the findAdjacentNeighborhoods(neighborhood) of part_006.
CallFindAdjacentKnown(s) ==
  /\ previous' = call
  /\ LET res == findAdjacentNeighborhoodsKnown(source, names, s)
     IN /\ call' = [op |-> "findAdjacentNeighborhoods (part_006)",
                    lng |-> NaN, lat |-> NaN, subject |-> s, radius |-> 0,
                    threw |-> res.threw, found |-> NoFeature,
                    nearby |-> res.value]
        /\ reads' = reads + res.loads
  /\ UNCHANGED <<source, names, pc, req, found, response, uiVars, salesVars, otherVars>>

NextNames ==
  /\ call = NoCall
  /\ \/ \E s \in Subjects(source), r \in Radii : CallFindAdjacent(s, r)
     \/ \E s \in Subjects(source) : CallFindAdjacentKnown(s)

SpecNames == InitNames /\ [][NextNames]_vars

\* ------------------------------------------ GET /api/data/sales (SpecSales)
InitSales ==
  /\ source = Unavailable
  /\ names = <<>>
  /\ reads = 0
  /\ call = NoCall
  /\ previous = NoCall
  /\ pc = "idle"
  /\ req = NoRequest
  /\ found = NoFeature
  /\ response = NoResponse
  /\ UiIdle
  /\ OtherIdle
  /\ salesSource \in SalesSources
  /\ salesCall = NoSalesCall

\* GET: the query is parsed, the sales file read, the features filtered and
\* returned in the requested format; a file that cannot be read ends in
\* the catch and a 500.
GetSales(formatRaw, neighborhood, includeAdjacentRaw, adjacentParam, minPriceRaw, maxPriceRaw, minUnitsRaw, maxUnitsRaw, buildingClass) ==
  LET format == IF formatRaw = Null \/ formatRaw = "" THEN "json" ELSE formatRaw
      includeAdjacent == includeAdjacentRaw # "false"
      q == [neighborhood |-> neighborhood,
            includeAdjacent |-> includeAdjacent,
            adjacent |-> ParseAdjacent(neighborhood, includeAdjacent, adjacentParam),
            minPrice |-> parseInt(minPriceRaw, 0),
            maxPrice |-> parseInt(maxPriceRaw, DefaultMaxPrice),
            minUnits |-> parseInt(minUnitsRaw, 0),
            maxUnits |-> parseInt(maxUnitsRaw, DefaultMaxUnits),
            buildingClass |-> buildingClass]
      filteredFeatures == FilterSalesFrom(salesSource.features, q, 1)
  IN /\ salesCall' =
          [op |-> "GET", format |-> format, neighborhood |-> neighborhood,
           includeAdjacent |-> includeAdjacent, adjacent |-> q.adjacent,
           minPrice |-> q.minPrice, maxPrice |-> q.maxPrice,
           minUnits |-> q.minUnits, maxUnits |-> q.maxUnits,
           buildingClass |-> buildingClass,
           status |-> IF salesSource.available THEN 200 ELSE 500,
           items |-> IF ~salesSource.available THEN <<>>
                     ELSE IF format = "geojson" THEN filteredFeatures
                     ELSE convertToSalesObjects(filteredFeatures)]
     /\ UNCHANGED <<source, names, reads, call, previous, pc, req, found,
                    response, uiVars, salesSource, otherVars>>

FormatParams == { Null, "geojson" }
NeighborhoodParams == { Null, "SoHo", "noho" }
IncludeAdjacentParams == { Null, "false" }
AdjacentNeighborhoodsParams == { <<>>, <<"NoHo">>, <<"soho", "Harlem">> }
MinParams == { Null, "2" }
MaxParams == { Null, "1" }
BuildingClassParams == { Null, "D" }

NextSales ==
  /\ salesCall = NoSalesCall
  /\ \E formatRaw \in FormatParams, neighborhood \in NeighborhoodParams,
        includeAdjacentRaw \in IncludeAdjacentParams,
        adjacentParam \in AdjacentNeighborhoodsParams,
        minPriceRaw \in MinParams, maxPriceRaw \in MaxParams,
        minUnitsRaw \in MinParams, maxUnitsRaw \in MaxParams,
        buildingClass \in BuildingClassParams :
       GetSales(formatRaw, neighborhood, includeAdjacentRaw, adjacentParam,
                minPriceRaw, maxPriceRaw, minUnitsRaw, maxUnitsRaw,
                buildingClass)

SpecSales == InitSales /\ [][NextSales]_vars

\* ------------------------- GET /api/data/sales, the ranges (SpecRanges)
InitRanges ==
  /\ source = Unavailable
  /\ names = <<>>
  /\ reads = 0
  /\ call = NoCall
  /\ previous = NoCall
  /\ pc = "idle"
  /\ req = NoRequest
  /\ found = NoFeature
  /\ response = NoResponse
  /\ UiIdle
  /\ OtherIdle
  /\ salesSource \in { Available(fs) :
                         fs \in UNION { RangeSalesOfLen(k) : k \in 0..MaxSales } }
  /\ salesCall = NoSalesCall

\* minPrice absent, a number, or a text that is no number.
MinPriceParams == { Null, "2", "x" }

\* A request with price and units ranges, without adjacent neighborhoods.
NextRanges ==
  /\ salesCall = NoSalesCall
  /\ \E formatRaw \in FormatParams, neighborhood \in { Null, "SoHo" },
        minPriceRaw \in MinPriceParams, maxPriceRaw \in MaxParams,
        minUnitsRaw \in MinParams, maxUnitsRaw \in MaxParams,
        buildingClass \in BuildingClassParams :
       GetSales(formatRaw, neighborhood, Null, <<>>,
                minPriceRaw, maxPriceRaw, minUnitsRaw, maxUnitsRaw,
                buildingClass)

SpecRanges == InitRanges /\ [][NextRanges]_vars

\* ---------------------------- scripts/geocode-sales.js (SpecGeocode)
InitGeocode ==
  /\ source = Unavailable
  /\ names = <<>>
  /\ reads = 0
  /\ call = NoCall
  /\ previous = NoCall
  /\ pc = "idle"
  /\ req = NoRequest
  /\ found = NoFeature
  /\ response = NoResponse
  /\ UiIdle
  /\ SalesIdle
  /\ geo \in { GeoStart(n) : n \in 0..MaxGeoSales }
  /\ search = SearchStart
  /\ modal = ModalStart
  /\ hoods = HoodsStart("MapView.tsx")

\* The loop test holds: batch.map(...) calls geocodeAddress for every sale
\* of the batch, each call runs up to its await of axios.get.
StartBatch ==
  /\ geo.pc = "batch"
  /\ geo.i < geo.n
  /\ geo' = [geo EXCEPT
               !.pc = "await",
               !.status = [k \in 1..geo.n |->
                             IF k \in Batch(geo) THEN "flight" ELSE @[k]],
               !.sent = [k \in 1..geo.n |->
                           IF k \in Batch(geo) THEN @[k] + 1 ELSE @[k]]]
  /\ UNCHANGED <<libVars, uiVars, salesVars, search, modal, hoods>>

\* axios.get of the request for sale k settles: geocodeAddress returns the
\* center of the first feature, or null (no feature, or an error caught).
GeocodeSettles(k, located) ==
  /\ geo.status[k] = "flight"
  /\ geo' = [geo EXCEPT !.status[k] = IF located THEN "located" ELSE "none"]
  /\ UNCHANGED <<libVars, uiVars, salesVars, search, modal, hoods>>

\* A script that goes on as soon as one request of the batch has settled.
BatchSettles_Race ==
  /\ geo.pc = "await"
  /\ \E k \in Batch(geo) : geo.status[k] # "flight"
  /\ geo' = [geo EXCEPT
               !.geocodedSales =
                 @ \o [j \in 1..Cardinality(Batch(geo)) |->
                         [id |-> geo.i + j, location |-> geo.status[geo.i + j]]],
               !.pc = IF geo.i + batchSize < geo.n THEN "delay" ELSE "batch",
               !.i = IF geo.i + batchSize < geo.n THEN @ ELSE @ + batchSize]
  /\ UNCHANGED <<libVars, uiVars, salesVars, search, modal, hoods>>

\* await Promise.all(promises) resumes: every request of the batch has
\* settled; the batch is pushed in its order; the delay starts when sales
\* remain.
BatchSettles ==
  /\ geo.pc = "await"
  /\ \A k \in Batch(geo) : geo.status[k] # "flight"
  /\ geo' = [geo EXCEPT
               !.geocodedSales =
                 @ \o [j \in 1..Cardinality(Batch(geo)) |->
                         [id |-> geo.i + j, location |-> geo.status[geo.i + j]]],
               !.pc = IF geo.i + batchSize < geo.n THEN "delay" ELSE "batch",
               !.i = IF geo.i + batchSize < geo.n THEN @ ELSE @ + batchSize]
  /\ UNCHANGED <<libVars, uiVars, salesVars, search, modal, hoods>>

\* await delay(delayMs) resumes; i += batchSize.
DelayElapses ==
  /\ geo.pc = "delay"
  /\ geo' = [geo EXCEPT !.pc = "batch", !.i = @ + batchSize]
  /\ UNCHANGED <<libVars, uiVars, salesVars, search, modal, hoods>>

RECURSIVE validSales(_, _)
\* geocodedSales.filter(sale => sale.location !== null), from position k on.
validSales(geocodedSales, k) ==
  IF k > Len(geocodedSales) THEN <<>>
  ELSE (IF geocodedSales[k].location # "none" THEN <<geocodedSales[k].id>>
        ELSE <<>>) \o validSales(geocodedSales, k + 1)

\* The loop test fails: the sales without a location are filtered out and
\* the GeoJSON is written.
WriteOutput ==
  /\ geo.pc = "batch"
  /\ geo.i >= geo.n
  /\ geo' = [geo EXCEPT !.pc = "done",
                        !.output = validSales(geo.geocodedSales, 1)]
  /\ UNCHANGED <<libVars, uiVars, salesVars, search, modal, hoods>>

NextGeocode ==
  \/ StartBatch
  \/ \E k \in 1..geo.n, located \in BOOLEAN : GeocodeSettles(k, located)
  \/ BatchSettles
  \/ DelayElapses
  \/ WriteOutput

SpecGeocode == InitGeocode /\ [][NextGeocode]_vars

\* ------------------------------------------ AddressSearch (SpecSearch)
InitSearch ==
  /\ source = Unavailable
  /\ Idle

\* What the user can type into the input.
TypedValues == { "", "ab", "abc", "abcd" }

\* An input change that leaves the timer of the previous change pending.
handleInputChange_NoClear(value) ==
  /\ search.typed < MaxTyped
  /\ search' = [search EXCEPT
                  !.inputValue = value,
                  !.typedValue = value,
                  !.typed = @ + 1,
                  !.timers = @ \cup {[id |-> search.typed + 1, value |-> value]},
                  !.debounceTimeout = search.typed + 1]
  /\ UNCHANGED <<libVars, uiVars, salesVars, geo, modal, hoods>>

\* handleInputChange: setInputValue, clearTimeout of the timer the ref
\* holds (a no-op when it has fired), setTimeout of a new one.
handleInputChange(value) ==
  /\ search.typed < MaxTyped
  /\ search' = [search EXCEPT
                  !.inputValue = value,
                  !.typedValue = value,
                  !.typed = @ + 1,
                  !.timers = { t \in @ : t.id # search.debounceTimeout }
                               \cup {[id |-> search.typed + 1, value |-> value]},
                  !.debounceTimeout = search.typed + 1]
  /\ UNCHANGED <<libVars, uiVars, salesVars, geo, modal, hoods>>

\* A pending timer fires: fetchAddressSuggestions(value) up to its first
\* await.  A query shorter than 3 characters clears the list and returns;
\* any other sets isLoading and sends the request.
TimerFires(t) ==
  /\ t \in search.timers
  /\ search' = IF Len(t.value) < 3
               THEN [search EXCEPT !.timers = @ \ {t}, !.fired = @ + 1,
                                   !.suggestions = None]
               ELSE [search EXCEPT !.timers = @ \ {t}, !.fired = @ + 1,
                                   !.isLoading = TRUE,
                                   !.requests = Append(@, t.value),
                                   !.pending = @ \cup {Len(search.requests) + 1}]
  /\ UNCHANGED <<libVars, uiVars, salesVars, geo, modal, hoods>>

\* The request r settles: with features setSuggestions(data.features);
\* without them, or with an error, the list stays; finally isLoading false.
SuggestionsArrive(r, features) ==
  /\ r \in search.pending
  /\ search' = [search EXCEPT
                  !.pending = @ \ {r},
                  !.isLoading = FALSE,
                  !.suggestions = IF features THEN search.requests[r] ELSE @]
  /\ UNCHANGED <<libVars, uiVars, salesVars, geo, modal, hoods>>

\* handleSuggestionClick up to its first await: the input takes the
\* address of the suggestion and the list is emptied.
handleSuggestionClick ==
  /\ search.suggestions # None
  /\ search' = [search EXCEPT !.inputValue = "1 Main St",
                              !.suggestions = None]
  /\ UNCHANGED <<libVars, uiVars, salesVars, geo, modal, hoods>>

NextSearch ==
  \/ \E value \in TypedValues : handleInputChange(value)
  \/ \E t \in search.timers : TimerFires(t)
  \/ \E r \in search.pending, features \in BOOLEAN : SuggestionsArrive(r, features)
  \/ handleSuggestionClick

SpecSearch == InitSearch /\ [][NextSearch]_vars

\* --------------------- the property record modal (SpecModal, SpecModalFair)
InitModal ==
  /\ source = Unavailable
  /\ Idle

\* onClick of "View Record" of a sale of the list; the list is not
\* reachable while the dialog is open.
ViewRecord(property) ==
  /\ ~modal.isModalOpen
  /\ modal' = [modal EXCEPT !.selectedProperty = property,
                            !.isModalOpen = TRUE]
  /\ UNCHANGED <<libVars, uiVars, salesVars, geo, search, hoods>>

\* onClose: setIsModalOpen(false).
CloseModal ==
  /\ modal.isModalOpen
  /\ modal' = [modal EXCEPT !.isModalOpen = FALSE]
  /\ UNCHANGED <<libVars, uiVars, salesVars, geo, search, hoods>>

\* An enrichment that leaves the results of the previous one in place.
handleEnrichRecord_KeepsResults ==
  /\ modal.isModalOpen
  /\ modal.selectedProperty # NoProperty
  /\ ~modal.isEnriching
  /\ modal.started < MaxEnrich
  /\ modal' = [modal EXCEPT
                 !.isEnriching = TRUE,
                 !.started = @ + 1,
                 !.requests = @ \cup {[id |-> modal.started + 1,
                                       property |-> modal.selectedProperty]}]
  /\ UNCHANGED <<libVars, uiVars, salesVars, geo, search, hoods>>

\* onClick of the enrich button, which is disabled while isEnriching:
\* handleEnrichRecord up to its await of fetch.
handleEnrichRecord ==
  /\ modal.isModalOpen
  /\ modal.selectedProperty # NoProperty
  /\ ~modal.isEnriching
  /\ modal.started < MaxEnrich
  /\ modal' = [modal EXCEPT
                 !.isEnriching = TRUE,
                 !.searchResults = NoProperty,
                 !.extractedData = NoProperty,
                 !.started = @ + 1,
                 !.requests = @ \cup {[id |-> modal.started + 1,
                                       property |-> modal.selectedProperty]}]
  /\ UNCHANGED <<libVars, uiVars, salesVars, geo, search, hoods>>

\* The outcomes of a request: a body with searchResults and extractedData,
\* with one of them, with neither, a status that is not OK, a rejected fetch.
EnrichOutcomes == { "both", "results", "data", "empty", "not ok", "throws" }

\* handleEnrichRecord after its awaits, for the request r: the results of
\* the body are set, or the error is logged; finally setIsEnriching(false).
EnrichSettles(r, outcome) ==
  /\ r \in modal.requests
  /\ modal' = [modal EXCEPT
                 !.requests = @ \ {r},
                 !.isEnriching = FALSE,
                 !.searchResults = IF outcome \in {"both", "results"} THEN r.property
                                   ELSE IF outcome \in {"data", "empty"} THEN NoProperty
                                   ELSE @,
                 !.extractedData = IF outcome \in {"both", "data"} THEN r.property
                                   ELSE IF outcome \in {"results", "empty"} THEN NoProperty
                                   ELSE @]
  /\ UNCHANGED <<libVars, uiVars, salesVars, geo, search, hoods>>

AnyEnrichSettles ==
  \E r \in modal.requests, outcome \in EnrichOutcomes : EnrichSettles(r, outcome)

NextModal ==
  \/ \E property \in Properties : ViewRecord(property)
  \/ CloseModal
  \/ handleEnrichRecord
  \/ AnyEnrichSettles

SpecModal == InitModal /\ [][NextModal]_vars

\* Every request to /api/enrich-property is answered or fails.
SpecModalFair == SpecModal /\ WF_vars(AnyEnrichSettles)

\* ------------------------- MapView and the selected address (SpecSelect)
InitSelect ==
  /\ source = Unavailable
  /\ names = <<>>
  /\ reads = 0
  /\ call = NoCall
  /\ previous = NoCall
  /\ pc = "idle"
  /\ req = NoRequest
  /\ found = NoFeature
  /\ response = NoResponse
  /\ UiIdle
  /\ SalesIdle
  /\ geo = NoGeo
  /\ search = SearchStart
  /\ modal = ModalStart
  /\ hoods \in { HoodsStart(version) : version \in MapViewVersions }

\* The page sets selectedAddress and the effect on it runs: the request
\* for the neighborhood of the address is sent.
SelectAddress(address) ==
  /\ hoods.selected < MaxSelections
  /\ hoods' = [hoods EXCEPT
                 !.selectedAddress = address,
                 !.selected = @ + 1,
                 !.requests = @ \cup {[id |-> hoods.selected + 1,
                                       address |-> address]}]
  /\ UNCHANGED <<libVars, uiVars, salesVars, geo, search, modal>>

\* MapView.tsx: the request r is answered.  With a neighborhood:
\* setNeighborhoodData, setCurrentNeighborhood, the timer of 100 ms and,
\* from the effect on neighborhoodData, the timer of 200 ms.  Otherwise
\* the catch: setNeighborhoodData(null), setCurrentNeighborhood(null).
NeighborhoodArrives(r, ok) ==
  /\ hoods.version = "MapView.tsx"
  /\ r \in hoods.requests
  /\ hoods' = IF ok
              THEN [hoods EXCEPT
                      !.requests = @ \ {r},
                      !.outcome[r.id] = "ok",
                      !.neighborhoodData = r.address,
                      !.currentNeighborhood = r.address,
                      !.length = 1,
                      !.timers = @ \o <<r.address, r.address>>]
              ELSE [hoods EXCEPT
                      !.requests = @ \ {r},
                      !.outcome[r.id] = "failed",
                      !.neighborhoodData = NoAddress,
                      !.currentNeighborhood = NoAddress,
                      !.length = 0]
  /\ UNCHANGED <<libVars, uiVars, salesVars, geo, search, modal>>

\* MapView.tsx: the next timer fires: updateNeighborhoodBoundary(map, data)
\* removes the boundary and adds the one of data.
BoundaryTimerFires ==
  /\ hoods.version = "MapView.tsx"
  /\ hoods.timers # <<>>
  /\ hoods' = [hoods EXCEPT !.timers = Tail(@), !.boundary = Head(hoods.timers)]
  /\ UNCHANGED <<libVars, uiVars, salesVars, geo, search, modal>>

\* part_011: the request r is answered.  With a neighborhood and adjacent
\* adjacent ones: setMainNeighborhood, setNeighborhoods of 1 + adjacent
\* entries.  Otherwise the catch: setNeighborhoods([]),
\* setMainNeighborhood(null).
NeighborhoodsArrive(r, ok, adjacent) ==
  /\ hoods.version = "part_011"
  /\ r \in hoods.requests
  /\ hoods' = IF ok
              THEN [hoods EXCEPT
                      !.requests = @ \ {r},
                      !.outcome[r.id] = "ok",
                      !.neighborhoodData = r.address,
                      !.currentNeighborhood = r.address,
                      !.length = 1 + adjacent,
                      !.dirty = TRUE]
              ELSE [hoods EXCEPT
                      !.requests = @ \ {r},
                      !.outcome[r.id] = "failed",
                      !.neighborhoodData = NoAddress,
                      !.currentNeighborhood = NoAddress,
                      !.length = 0,
                      !.dirty = TRUE]
  /\ UNCHANGED <<libVars, uiVars, salesVars, geo, search, modal>>

\* part_011, updateNeighborhoodBoundaries(map, neighborhoods): the sources
\* and layers of the indices of the list are removed and added anew; the
\* layers at the indices from neighborhoods.length on are not touched.
updateNeighborhoodBoundaries(layers, owner, length) ==
  [i \in 1..(IF length > Len(layers) THEN length ELSE Len(layers)) |->
     IF i <= length THEN owner ELSE layers[i]]

\* part_011: the render after setNeighborhoods and the effect on
\* neighborhoods, which does nothing for an empty list.
BoundariesEffect ==
  /\ hoods.version = "part_011"
  /\ hoods.dirty
  /\ hoods' = [hoods EXCEPT
                 !.dirty = FALSE,
                 !.layers = IF hoods.length > 0
                            THEN updateNeighborhoodBoundaries(
                                   @, hoods.neighborhoodData, hoods.length)
                            ELSE @]
  /\ UNCHANGED <<libVars, uiVars, salesVars, geo, search, modal>>

NextSelect ==
  \/ \E address \in Addresses : SelectAddress(address)
  \/ \E r \in hoods.requests, ok \in BOOLEAN : NeighborhoodArrives(r, ok)
  \/ BoundaryTimerFires
  \/ \E r \in hoods.requests, ok \in BOOLEAN, adjacent \in 0..MaxAdjacentShown :
       NeighborhoodsArrive(r, ok, adjacent)
  \/ BoundariesEffect

SpecSelect == InitSelect /\ [][NextSelect]_vars

\* ------------------------------------- the "Show Sales Data" button (SpecUI)
InitUI ==
  /\ source = Unavailable
  /\ Idle

\* map.on('load'): setMapInitialized(true).
MapLoad ==
  /\ ~view.mapInitialized
  /\ view' = [view EXCEPT !.mapInitialized = TRUE, !.dirty = TRUE]
  /\ UNCHANGED <<libVars, showSales, map, salesVars, otherVars>>

\* onClick of the button: setShowSales(!showSales).
ToggleShowSales ==
  /\ showSales' = ~showSales
  /\ view' = [view EXCEPT !.dirty = TRUE]
  /\ UNCHANGED <<libVars, map, salesVars, otherVars>>

\* The neighborhood of a selected address arrives:
\* setCurrentNeighborhood(neighborhoodName).
SetCurrentNeighborhood(n) ==
  /\ view.currentNeighborhood # n
  /\ view' = [view EXCEPT !.currentNeighborhood = n, !.dirty = TRUE]
  /\ UNCHANGED <<libVars, showSales, map, salesVars, otherVars>>

\* The second effect of SalesLayer: nothing without loaded features;
\* otherwise the sales source and layers are removed if present and added
\* anew from salesData, and the handlers registered.
AddSalesToMap(m, salesData) ==
  IF ~salesData.loaded \/ salesData.count = 0 THEN m
  ELSE [sources |-> m.sources \cup {salesSourceId},
        layers |-> m.layers \cup SalesLayerIds,
        data |-> salesData,
        handlers |-> TRUE]

\* The cleanup of that effect: map.off for the six handlers.
CleanupSalesHandlers(m) == [m EXCEPT !.handlers = FALSE]

\* React renders the pending state changes and runs the effects.
\* SalesLayer is rendered when mapInitialized && showSales; its
\* adjacentNeighborhoods = [] default and the onSaleSelect of MapView are
\* new values at every render, so both of its effects run after each one.
Render ==
  /\ view.dirty
  /\ LET shouldMount == view.mapInitialized /\ showSales
     IN IF ~shouldMount
        THEN /\ view' = [view EXCEPT !.mounted = FALSE, !.salesData = NoSalesData,
                                     !.fetching = NoFetch, !.dirty = FALSE]
             /\ map' = IF view.mounted THEN CleanupSalesHandlers(map) ELSE map
        ELSE IF ~view.mounted
        THEN /\ view' = [view EXCEPT !.mounted = TRUE, !.salesData = NoSalesData,
                                     !.fetching = Fetch(view.currentNeighborhood),
                                     !.dirty = FALSE]
             /\ map' = map
        ELSE /\ view' = [view EXCEPT !.fetching = Fetch(view.currentNeighborhood),
                                     !.dirty = FALSE]
             /\ map' = AddSalesToMap(CleanupSalesHandlers(map), view.salesData)
  /\ UNCHANGED <<libVars, showSales, salesVars, otherVars>>

\* The request to /api/data/sales?format=geojson of the mounted SalesLayer
\* returns: setSalesData(data) with count features, or setError.
FetchDone(ok, count) ==
  /\ view.fetching.active
  /\ view' = [view EXCEPT
               !.salesData = IF ok THEN SalesData(view.fetching.neighborhood, count)
                             ELSE @,
               !.fetching = NoFetch,
               !.dirty = TRUE]
  /\ UNCHANGED <<libVars, showSales, map, salesVars, otherVars>>

NextUI ==
  \/ MapLoad
  \/ ToggleShowSales
  \/ \E n \in SelectableNeighborhoods : SetCurrentNeighborhood(n)
  \/ Render
  \/ \E ok \in BOOLEAN, count \in 0..MaxSales : FetchDone(ok, count)

SpecUI == InitUI /\ [][NextUI]_vars

\* ------------------------------------------- GET /api/neighborhoods (Spec)
Init ==
  /\ source \in Sources(MaxRouteFeatures, TRUE, BadKinds)
  /\ Idle

\* A GET that includes the adjacent neighborhoods unless the parameter is
\* any spelling of false.
Receive_AnyFalse(lngRaw, latRaw, adjRaw) ==
  /\ pc = "idle"
  /\ reads < MaxReads
  /\ LET lng == parseFloat(OrZero(lngRaw))
         lat == parseFloat(OrZero(latRaw))
     IN /\ req' = [lng |-> lng, lat |-> lat, lngRaw |-> lngRaw,
                   latRaw |-> latRaw, adjacentRaw |-> adjRaw,
                   includeAdjacent |-> adjRaw \notin {"false", "False"},
                   lookups |-> 0, adjacencies |-> 0]
        /\ IF isNaN(lng) \/ isNaN(lat)
           THEN /\ response' = Response(400, <<>>, NoFeature, <<>>)
                /\ pc' = "done"
           ELSE /\ response' = NoResponse
                /\ pc' = "find"
  /\ found' = NoFeature
  /\ UNCHANGED <<source, names, reads, call, previous, uiVars, salesVars, otherVars>>

\* GET up to the first await: parse the query, reject NaN coordinates.
Receive(lngRaw, latRaw, adjRaw) ==
  /\ pc = "idle"
  /\ reads < MaxReads
  /\ LET lng == parseFloat(OrZero(lngRaw))
         lat == parseFloat(OrZero(latRaw))
     IN /\ req' = [lng |-> lng, lat |-> lat, lngRaw |-> lngRaw,
                   latRaw |-> latRaw, adjacentRaw |-> adjRaw,
                   includeAdjacent |-> adjRaw # "false",
                   lookups |-> 0, adjacencies |-> 0]
        /\ IF isNaN(lng) \/ isNaN(lat)
           THEN /\ response' = Response(400, <<>>, NoFeature, <<>>)
                /\ pc' = "done"
           ELSE /\ response' = NoResponse
                /\ pc' = "find"
  /\ found' = NoFeature
  /\ UNCHANGED <<source, names, reads, call, previous, uiVars, salesVars, otherVars>>

\* await findNeighborhood(lng, lat) and what follows up to the next await.
FindStep ==
  /\ pc = "find"
  /\ LET res == findNeighborhood(source, req.lng, req.lat)
     IN /\ reads' = reads + res.loads
        /\ req' = [req EXCEPT !.lookups = @ + 1]
        /\ found' = res.value
        /\ IF res.threw
           THEN /\ response' = Response(500, <<>>, NoFeature, <<>>)
                /\ pc' = "done"
           ELSE IF res.value = NoFeature
           THEN /\ response' = Response(404, <<req.lng, req.lat>>, NoFeature, <<>>)
                /\ pc' = "done"
           ELSE IF req.includeAdjacent
           THEN /\ response' = NoResponse
                /\ pc' = "adjacent"
           ELSE /\ response' = Response(200, <<>>, res.value, <<>>)
                /\ pc' = "done"
  /\ UNCHANGED <<source, names, call, previous, uiVars, salesVars, otherVars>>

\* await findAdjacentNeighborhoods(containingNeighborhood) and the response.
AdjacentStep ==
  /\ pc = "adjacent"
  /\ LET res == findAdjacentNeighborhoods(source, found, DefaultProximityMiles)
     IN /\ reads' = reads + res.loads
        /\ response' = IF res.threw
                       THEN Response(500, <<>>, NoFeature, <<>>)
                       ELSE Response(200, <<>>, found, res.value)
  /\ req' = [req EXCEPT !.adjacencies = @ + 1]
  /\ pc' = "done"
  /\ UNCHANGED <<source, names, call, previous, found, uiVars, salesVars, otherVars>>

\* The response is sent; the handler is ready for the next request.
Complete ==
  /\ pc = "done"
  /\ pc' = "idle"
  /\ req' = NoRequest
  /\ found' = NoFeature
  /\ response' = NoResponse
  /\ UNCHANGED <<source, names, reads, call, previous, uiVars, salesVars, otherVars>>

Next ==
  \/ \E lngRaw \in LngParams, latRaw \in LatParams, adjRaw \in AdjacentParams :
       Receive(lngRaw, latRaw, adjRaw)
  \/ FindStep
  \/ AdjacentStep
  \/ Complete

Spec == Init /\ [][Next]_vars


\* ------------------------------------------------------------ properties
Range(seq) == { seq[i] : i \in DOMAIN seq }

Features == getNYCNeighborhoods(source)

IsFindCall == call.op = "findNeighborhood"
IsAdjacentCall == call.op = "findAdjacentNeighborhoods" /\ call.subject # NoFeature

\* The positions whose polygon contains the point of the recorded call.
Containing ==
  { i \in DOMAIN Features :
      /\ "pip" \notin Features[i].bad
      /\ booleanPointInPolygon(call.lng, call.lat, Features[i]) }

\* The three tests of the adjacency heuristic, each holding when it can be
\* evaluated and is true.
TouchTest(s, c) ==
  /\ "touches" \notin (s.bad \cup c.bad)
  /\ booleanTouches(s, c)

BufferTest(s, c, r) ==
  /\ "buffer" \notin s.bad
  /\ "intersects" \notin c.bad
  /\ BufferIntersects(s, c, r)

CentroidTest(s, c, r) ==
  /\ safeGetCentroid(s).ok
  /\ safeGetCentroid(c).ok
  /\ WithinDistance(safeGetCentroid(s), safeGetCentroid(c), r)

AnyTest(s, c, r) == TouchTest(s, c) \/ BufferTest(s, c, r) \/ CentroidTest(s, c, r)

\* A test that ends in an error for the pair.
SomeTestFails(s, c) ==
  \/ "buffer" \in s.bad
  \/ "intersects" \in c.bad
  \/ ~safeGetCentroid(s).ok
  \/ ~safeGetCentroid(c).ok
  \/ "touches" \in (s.bad \cup c.bad)

\* C1: findNeighborhood returns the first feature, in dataset order, whose
\* polygon contains the point (none when there is no such feature); a point
\* strictly inside exactly one neighborhood N and inside no other resolves
\* to N.
C1_FirstContaining ==
  (IsFindCall /\ ~call.threw) =>
    /\ IF Containing = {}
       THEN call.found = NoFeature
       ELSE /\ call.found \in Containing
            /\ \A j \in Containing : call.found <= j
    /\ \A n \in DOMAIN Features :
         ( /\ "pip" \notin Features[n].bad
           /\ StrictlyInside(call.lng, call.lat, Features[n])
           /\ \A m \in DOMAIN Features \ {n} :
                ~booleanPointInPolygon(call.lng, call.lat, Features[m]) )
         => call.found = n

\* C1 witness: the point is inside two neighborhoods and the earlier one of
\* the dataset was returned.
C1_Witness ==
  /\ IsFindCall
  /\ call.found # NoFeature
  /\ \E j \in Containing : j > call.found

\* C2: a candidate other than the subject is in the result exactly when one
\* of the three tests holds, and no feature and no code occurs twice in the
\* result.
C2_UnionOfTests ==
  IsAdjacentCall =>
    /\ \A i \in DOMAIN Features \ {call.subject} :
         (i \in Range(call.nearby))
           <=> AnyTest(Features[call.subject], Features[i], call.radius)
    /\ \A j, k \in DOMAIN call.nearby :
         j # k =>
           /\ call.nearby[j] # call.nearby[k]
           /\ \/ CandidateCode(Features[call.nearby[j]]) = None
              \/ CandidateCode(Features[call.nearby[j]])
                   # CandidateCode(Features[call.nearby[k]])

\* C3: the result of findAdjacentNeighborhoods(N) never contains N, with or
\* without an ntacode or id on N.
C3_SubjectExcluded ==
  IsAdjacentCall => call.subject \notin Range(call.nearby)

\* C4: when a test ends in an error for a candidate, the query still
\* completes and the candidate is in the result exactly when one of the
\* remaining tests holds.
C4_FailedTestSkipped ==
  IsAdjacentCall =>
    /\ ~call.threw
    /\ \A i \in DOMAIN Features \ {call.subject} :
         SomeTestFails(Features[call.subject], Features[i]) =>
           ( AnyTest(Features[call.subject], Features[i], call.radius)
               => i \in Range(call.nearby) )

\* C5: the dataset source is read at most once in the life of the process.
C5_ReadOnce == reads <= 1

\* C6: a request served while the source cannot be read or parsed ends in an
\* error response, never in 'no neighborhood found'.
C6_LoadFailureSurfaces ==
  (pc = "done" /\ ~source.available /\ req.lookups > 0) =>
    response.status = 500

\* A query parameter that is present and denotes a finite number.
IsFiniteParam(raw) == raw # Null /\ IsFinite(parseFloat(raw))

\* C7: a request whose longitude or latitude is not a finite number is
\* answered 400 and no containment query is run for it.
C7_NonFiniteRejected ==
  (pc # "idle" /\ ~(IsFiniteParam(req.lngRaw) /\ IsFiniteParam(req.latRaw))) =>
    /\ pc = "done"
    /\ response.status = 400
    /\ req.lookups = 0

\* C8: findAdjacentNeighborhoods with a null subject fails with an error.
C8_NullSubjectFails ==
  (call.op = "findAdjacentNeighborhoods" /\ call.subject = NoFeature) =>
    call.threw

\* C9: when no neighborhood polygon contains the point of a request that
\* passed validation, findNeighborhood returns null and the response is 404
\* with the queried coordinates.
C9_NoneIs404 ==
  ( /\ pc = "done"
    /\ ~isNaN(req.lng) /\ ~isNaN(req.lat)
    /\ \A i \in DOMAIN Features :
         ~booleanPointInPolygon(req.lng, req.lat, Features[i]) )
  => /\ found = NoFeature
     /\ response.status = 404
     /\ response.coordinates = <<req.lng, req.lat>>

\* C9 witness: a finite point outside every polygon of a non-empty dataset
\* was answered 404.
C9_Witness ==
  /\ pc = "done"
  /\ Len(Features) > 0
  /\ IsFinite(req.lng) /\ IsFinite(req.lat)
  /\ \A i \in DOMAIN Features :
       ~booleanPointInPolygon(req.lng, req.lat, Features[i])
  /\ response.status = 404

\* C10: the result for a radius is contained in the result for every larger
\* radius, and contains the result for every smaller one.
C10_RadiusMonotonic ==
  IsAdjacentCall =>
    \A r2 \in Radii :
      LET other == Range(findAdjacentNeighborhoods(source, call.subject, r2).value)
      IN /\ call.radius <= r2 => Range(call.nearby) \subseteq other
         /\ r2 <= call.radius => other \subseteq Range(call.nearby)

\* C10 witness: a larger radius adds a neighborhood to the result.
C10_Witness ==
  /\ IsAdjacentCall
  /\ \E r2 \in Radii :
       /\ call.radius < r2
       /\ Range(call.nearby)
            # Range(findAdjacentNeighborhoods(source, call.subject, r2).value)

\* C11: when the subject and another neighborhood of the dataset share a
\* boundary edge, each of the two is in the adjacency result of the other.
C11_TouchSymmetric ==
  IsAdjacentCall =>
    \A i \in DOMAIN Features \ {call.subject} :
      booleanTouches(Features[call.subject], Features[i]) =>
        /\ i \in Range(call.nearby)
        /\ call.subject
             \in Range(findAdjacentNeighborhoods(source, i, call.radius).value)

WasFindCall == previous.op = "findNeighborhood"

\* C12: no call of findNeighborhood or findAdjacentNeighborhoods changes the
\* neighborhood collection: its features, their order, properties and
\* geometry are after the call what they were before it.
C12_CallsLeaveCollection ==
  [][(call' # call \/ reads' # reads) => source' = source]_vars

\* C12 witness: a containment query and then an adjacency query with a
\* non-empty result were made on the collection.
C12_Witness ==
  /\ WasFindCall
  /\ previous.found # NoFeature
  /\ IsAdjacentCall
  /\ call.nearby # <<>>

\* C13: two findNeighborhood calls of one process with the same point give
\* the same answer.
C13_Deterministic ==
  ( /\ IsFindCall /\ WasFindCall
    /\ call.lng = previous.lng /\ call.lat = previous.lat )
  => /\ call.threw = previous.threw
     /\ call.found = previous.found

\* The dataset is two well-formed unit squares, the one at position a on
\* x in [0,1] and the one at position b, `gap` grid steps to its right.
TwoSquares(a, b, gap) ==
  /\ source.available
  /\ Len(source.features) = 2
  /\ a \in 1..2 /\ b \in 1..2 /\ a # b
  /\ source.features[a].x1 = 0
  /\ source.features[b].x1 = 2 + gap
  /\ \A i \in 1..2 : source.features[i].bad = {}

\* Every neighborhood of the dataset has a code.
AllCoded == \A i \in DOMAIN source.features : CandidateCode(source.features[i]) # None

\* C14: on the dataset of the squares A (x in [0,1]) and B (x in [1,2]),
\* a call findNeighborhood(0.5, 0.5) returns A and a call
\* findAdjacentNeighborhoods(A) returns exactly B.
C14_SharedEdgeScenario ==
  [][ \A a, b \in 1..2 :
        (TwoSquares(a, b, 0) /\ AllCoded /\ reads' = reads + 1) =>
          /\ ( /\ call'.op = "findNeighborhood"
               /\ call'.lng = Fin(1) /\ call'.lat = Fin(1) )
             => (~call'.threw /\ call'.found = a)
          /\ (call'.op = "findAdjacentNeighborhoods" /\ call'.subject = a)
             => (~call'.threw /\ Range(call'.nearby) = {b}) ]_vars

\* C14 witness: on that dataset the point (0.5, 0.5) was resolved to A and
\* then the neighborhoods adjacent to A were found to be B, with the default
\* radius.
C14_Witness ==
  \E a, b \in 1..2 :
    /\ TwoSquares(a, b, 0)
    /\ AllCoded
    /\ WasFindCall
    /\ previous.lng = Fin(1) /\ previous.lat = Fin(1)
    /\ previous.found = a
    /\ IsAdjacentCall
    /\ call.subject = a
    /\ call.radius = DefaultProximityMiles
    /\ call.nearby = <<b>>

ResultWithNames(nms) ==
  IF call.op = "findAdjacentNeighborhoods"
  THEN findAdjacentNeighborhoods(source, call.subject, call.radius).value
  ELSE findAdjacentNeighborhoodsKnown(source, nms, call.subject).value

\* C16: the adjacency result is the same for every way of naming the
\* neighborhoods of the dataset: it depends on geometry, codes and radius
\* only.
C16_NamesIrrelevant ==
  (call # NoCall /\ call.subject # NoFeature) =>
    \A nms \in Namings(Len(Features)) :
      Range(call.nearby) = Range(ResultWithNames(nms))

\* The recorded sales request named a neighborhood and adjacent
\* neighborhoods and was answered with sales.
IsAdjacentSalesQuery ==
  /\ salesCall.op = "GET"
  /\ salesCall.status = 200
  /\ salesCall.neighborhood # Null
  /\ salesCall.includeAdjacent
  /\ salesCall.adjacent # <<>>

\* C18: every sale returned for a query that includes adjacent
\* neighborhoods carries the mark isMainNeighborhood, in the output format
\* 'geojson' and in the output format 'json': true when the sale is of the
\* main neighborhood (also when it matches an adjacent one as well), false
\* when it is of an adjacent one only.
C18_MainMarkInBothFormats ==
  IsAdjacentSalesQuery =>
    \A k \in DOMAIN salesCall.items :
      LET sale == salesCall.items[k]
      IN sale.isMainNeighborhood =
           IF inMainNeighborhood(sale, salesCall.neighborhood)
           THEN "true" ELSE "false"

\* C17: once showSales is off and the page has re-rendered, the map holds
\* no sales source and no sales layer; once it is on, the page has
\* re-rendered and sales are loaded, the map holds them.
C17_ToggleHidesSales ==
  /\ (~showSales /\ ~view.dirty) =>
       /\ salesSourceId \notin map.sources
       /\ map.layers \cap SalesLayerIds = {}
  /\ ( /\ showSales /\ ~view.dirty /\ view.mounted
       /\ view.salesData.loaded /\ view.salesData.count > 0 ) =>
       /\ salesSourceId \in map.sources
       /\ SalesLayerIds \subseteq map.layers

\* The subject of the recorded call, and whether a candidate passes the
\* tests that remain when there is no buffer.
Subject == Features[call.subject]

CentroidOrTouch(i) ==
  \/ CentroidTest(Subject, Features[i], call.radius)
  \/ TouchTest(Subject, Features[i])

\* C19: when the buffer around the subject cannot be built the query
\* completes and returns exactly the candidates other than the subject that
\* pass the centroid-distance test or the touch test; a subject whose
\* centroid cannot be computed is placed at the first vertex of its first
\* ring, and the result is empty for that reason only when the first vertex
\* cannot be taken either.
C19_BufferAndCentroidFallback ==
  IsAdjacentCall =>
    /\ ~call.threw
    /\ ("buffer" \in Subject.bad /\ safeGetCentroid(Subject).ok) =>
         Range(call.nearby)
           = { i \in DOMAIN Features \ {call.subject} : CentroidOrTouch(i) }
    /\ ("centroid" \in Subject.bad /\ "firstCoord" \notin Subject.bad) =>
         /\ safeGetCentroid(Subject) = FirstCoord(Subject)
         /\ \A i \in DOMAIN Features \ {call.subject} :
              ( /\ Features[i].bad = {}
                /\ WithinDistance(FirstCoord(Subject), centroid(Features[i]),
                                  call.radius) )
              => i \in Range(call.nearby)
    /\ ~safeGetCentroid(Subject).ok <=>
         ("centroid" \in Subject.bad /\ "firstCoord" \in Subject.bad)
    /\ ~safeGetCentroid(Subject).ok => call.nearby = <<>>

\* C20: a request is answered with the adjacent neighborhoods unless its
\* parameter adjacent is exactly 'false'; with 'false',
\* findAdjacentNeighborhoods is not invoked and the 200 response carries an
\* empty adjacentNeighborhoods with the name and the feature of the
\* containing neighborhood.
C20_AdjacentUnlessFalse ==
  /\ req.adjacentRaw = "false" => req.adjacencies = 0
  /\ (pc = "done" /\ response.status = 200) =>
       /\ found # NoFeature
       /\ response.neighborhood = found
       /\ response.data = found
       /\ IF req.adjacentRaw = "false"
          THEN response.adjacentNeighborhoods = <<>>
          ELSE /\ req.adjacencies = 1
               /\ response.adjacentNeighborhoods
                    = findAdjacentNeighborhoods(source, found,
                                                DefaultProximityMiles).value

\* C20 witness: a request with adjacent=false for a point inside a
\* neighborhood was answered 200 without a call of
\* findAdjacentNeighborhoods.
C20_Witness ==
  /\ pc = "done"
  /\ response.status = 200
  /\ req.adjacentRaw = "false"
  /\ req.adjacencies = 0
  /\ response.data # NoFeature

\* A range of the recorded sales request is in force: its lower bound is
\* above 0 or its upper bound below the default.
RangeOn(lo, hi, defaultHi) ==
  (IsFinite(lo) /\ lo.v > 0) \/ (IsFinite(hi) /\ hi.v < defaultHi)

Within(x, lo, hi) ==
  IsFinite(lo) /\ IsFinite(hi) /\ lo.v <= x /\ x <= hi.v

\* The neighborhood filter and the building-class prefix filter of the
\* recorded sales request keep the feature.
PassesOtherFilters(feature) ==
  /\ (salesCall.neighborhood # Null) =>
       FilterNeighborhood(feature, salesCall.neighborhood,
                          salesCall.includeAdjacent, salesCall.adjacent).keep
  /\ (salesCall.buildingClass # Null) =>
       \E rest \in {"", "1"} :
         feature.buildingClass = salesCall.buildingClass \o rest

\* C21: when the price range is in force every returned sale has its price
\* in it, when the units range is in force every returned sale has its
\* units in it, and the returned sales are, in the order of the file,
\* exactly the sales that pass the neighborhood filter, the building-class
\* filter and every range in force: a range at its defaults excludes none.
C21_RangeFilters ==
  (salesCall.op = "GET" /\ salesCall.status = 200) =>
    LET price == RangeOn(salesCall.minPrice, salesCall.maxPrice, DefaultMaxPrice)
        units == RangeOn(salesCall.minUnits, salesCall.maxUnits, DefaultMaxUnits)
        Stays(f) ==
          /\ PassesOtherFilters(f)
          /\ price => Within(f.price, salesCall.minPrice, salesCall.maxPrice)
          /\ units => Within(f.units, salesCall.minUnits, salesCall.maxUnits)
        expected == SelectSeq(salesSource.features, Stays)
    IN /\ \A k \in DOMAIN salesCall.items :
            /\ price => Within(salesCall.items[k].price,
                               salesCall.minPrice, salesCall.maxPrice)
            /\ units => Within(salesCall.items[k].units,
                               salesCall.minUnits, salesCall.maxUnits)
       /\ Len(salesCall.items) = Len(expected)
       /\ \A k \in DOMAIN expected : salesCall.items[k].id = expected[k].id

\* C21 witness: a request with a price range in force and a units range at
\* its defaults returned one sale of a file that also holds a sale outside
\* the price range.
C21_Witness ==
  /\ salesCall.op = "GET"
  /\ salesCall.status = 200
  /\ salesCall.maxPrice = Fin(1)
  /\ salesCall.minPrice = Fin(0)
  /\ ~RangeOn(salesCall.minUnits, salesCall.maxUnits, DefaultMaxUnits)
  /\ Len(salesCall.items) = 1
  /\ Len(salesSource.features) = 2
  /\ \E k \in DOMAIN salesSource.features : salesSource.features[k].price = 2

\* The sales of the run whose geocoding request is in flight.
InFlight == { k \in 1..geo.n : geo.status[k] = "flight" }

RECURSIVE Located(_)
\* The sales up to position k whose geocoding returned a location, in
\* the order of the input.
Located(k) ==
  IF k = 0 THEN <<>>
  ELSE Located(k - 1) \o (IF geo.status[k] = "located" THEN <<k>> ELSE <<>>)

\* C22: at most 5 geocoding requests are in flight; while a request of a
\* batch is in flight every sale of the batches before it has been answered
\* and no sale after the batch has been sent; no sale is sent to the geocoder
\* twice, and once the output is written every sale has been sent once and
\* the output holds exactly the located sales in input order.
C22_SequentialBatches ==
  /\ Cardinality(InFlight) <= batchSize
  /\ \A k \in InFlight :
       /\ \A j \in 1..geo.n :
            (j - 1) \div batchSize < (k - 1) \div batchSize
              => geo.status[j] \in {"located", "none"}
       /\ \A j \in 1..geo.n :
            (j - 1) \div batchSize > (k - 1) \div batchSize
              => geo.status[j] = "new"
  /\ \A k \in 1..geo.n : geo.sent[k] <= 1
  /\ geo.pc = "done" =>
       /\ \A k \in 1..geo.n : geo.sent[k] = 1
       /\ geo.output = Located(geo.n)

\* C22 witness: a run over more sales than one batch holds has written its
\* output, with a sale located and a sale not located in the first batch.
C22_Witness ==
  /\ geo.pc = "done"
  /\ geo.n > batchSize
  /\ geo.status[1] = "none"
  /\ geo.status[2] = "located"
  /\ geo.status[geo.n] = "located"
  /\ Len(geo.output) = geo.n - 1

\* C23: at most one debounce timer is pending; an input change leaves
\* pending only the timer it sets, for the value typed; a suggestion
\* request is issued only when a timer fires, for the value typed last and
\* only when that value has 3 characters or more; a timer that fires for a
\* shorter value issues no request and empties the suggestion list.
C23_Debounced ==
  [][ /\ Cardinality(search.timers) <= 1
      /\ Cardinality(search'.timers) <= 1
      /\ search'.typed # search.typed =>
           /\ search'.timers = {[id |-> search'.typed, value |-> search'.typedValue]}
           /\ search'.requests = search.requests
      /\ search'.requests # search.requests =>
           /\ search'.fired = search.fired + 1
           /\ search'.requests = Append(search.requests, search.typedValue)
           /\ Len(search.typedValue) >= 3
      /\ (search'.fired # search.fired /\ Len(search.typedValue) < 3) =>
           /\ search'.requests = search.requests
           /\ search'.suggestions = None
    ]_vars

\* C23 witness: three values were typed, the second before the timer of the
\* first fired; one request was issued, for the second value, and the timer
\* of the third, shorter value emptied the list the request had filled.
C23_Witness ==
  /\ search.typed = 3
  /\ search.fired = 2
  /\ search.requests = <<"abcd">>
  /\ search.typedValue = "ab"
  /\ search.pending = {}
  /\ search.suggestions = None
  /\ search.timers = {}

\* C24: a step that starts an enrichment sets isEnriching and empties the
\* search results and the extracted data; no enrichment starts while
\* isEnriching is true, so at most one request is in flight; and every
\* request in flight leads to isEnriching being false.
C24_EnrichingFlag ==
  /\ [][ /\ modal'.started # modal.started =>
              /\ ~modal.isEnriching
              /\ modal'.isEnriching
              /\ modal'.searchResults = NoProperty
              /\ modal'.extractedData = NoProperty
         /\ Cardinality(modal'.requests) <= 1
       ]_vars
  /\ \A p \in Properties, id \in 1..MaxEnrich :
       ([id |-> id, property |-> p] \in modal.requests) ~> ~modal.isEnriching

\* C24 witness: a second enrichment is in flight, started after the first
\* had filled the results.
C24_Witness ==
  /\ modal.started = 2
  /\ modal.isEnriching
  /\ modal.requests # {}
  /\ modal.searchResults = NoProperty

\* C27: the search results and the extracted data of the open modal were
\* obtained for the property it displays.
C27_ResultsOfDisplayed ==
  modal.isModalOpen =>
    /\ modal.searchResults \in {NoProperty, modal.selectedProperty}
    /\ modal.extractedData \in {NoProperty, modal.selectedProperty}

\* Every request has been answered, every timer has fired and every effect
\* has run.
Settled ==
  /\ hoods.selected > 0
  /\ hoods.requests = {}
  /\ hoods.timers = <<>>
  /\ ~hoods.dirty

\* The address whose neighborhood boundary is drawn on the map.
Drawn ==
  IF hoods.version = "MapView.tsx" THEN hoods.boundary
  ELSE IF hoods.layers = <<>> THEN NoAddress
  ELSE hoods.layers[1]

\* C25: once every request has been answered, the neighborhood data, the
\* current neighborhood and the drawn boundary are those of the address
\* selected last: its neighborhood when its request found one, none
\* otherwise.
C25_LastSelectionShown ==
  Settled =>
    LET shown == IF hoods.outcome[hoods.selected] = "ok"
                 THEN hoods.selectedAddress ELSE NoAddress
    IN /\ hoods.neighborhoodData = shown
       /\ hoods.currentNeighborhood = shown
       /\ Drawn = shown

\* C26: in the multi-neighborhood MapView, once the effect on the
\* neighborhoods list has run, the map holds boundary sources and layers
\* for exactly the entries of the list.
C26_LayersMatchList ==
  (hoods.version = "part_011" /\ ~hoods.dirty) =>
    /\ Len(hoods.layers) = hoods.length
    /\ \A i \in 1..Len(hoods.layers) : hoods.layers[i] = hoods.neighborhoodData

====
